---- MODULE Spec2Model ----
(***************************************************************************)
(* A model of the slides2video asset pipeline: notes extraction, speech    *)
(* synthesis, slide rendering, clip composition and concatenation.  Each   *)
(* stage is a script of the repository; the asset store is the set of      *)
(* files image_<n>.png, note_<n>.txt, voiceover_<n>.mp3, videoclip_<n>.mp4 *)
(* the scripts read and write.                                             *)
(***************************************************************************)
EXTENDS Integers, Sequences, FiniteSets, TLC

VARIABLES
    stage,          \* the script that is running
    pc,             \* its position: "start", "loop", "done", "raised"
    raised,         \* the exception that ended the script, or "none"
    \* ---- text2speech.py: before_sleep_func / parse_rate_limit_headers
    retryFailed,    \* retry_state.outcome.failed
    excKind,        \* class of retry_state.outcome.exception()
    headers,        \* exception.response.headers: <<>> or <<value>> of the reset header
    slept,          \* seconds passed to time.sleep
    \* ---- pdf2png.py / generate_videoclips.py: dimension normalisation
    inW, inH,       \* the input image's size
    outW, outH,     \* the output image's size
    op,             \* the normalising step that ran
    \* ---- the asset store
    notes,          \* assets/notes: note file |-> its text
    voiceovers,     \* assets/voiceovers: file |-> its content
    images,         \* assets/images: the image files
    clips,          \* assets/videoclips: clip file |-> "complete" or "partial"
    written,        \* the files written since the run began
    \* ---- text2speech.py
    apiPlan,        \* the speech API's answer to its 1st, 2nd, ... call
    apiCalls,       \* calls of client.audio.speech.create since the run began
    num_notes,      \* len(list(notes_dir.glob("note_*.txt")))
    i,              \* the loop variable of the speech stage
    fileOps,        \* the file operations of the latest text_to_speech call, in order
    \* ---- generate_videoclips.py
    dirs,           \* the asset directories that exist
    overwrite,      \* the --overwrite flag
    image_files,    \* natsorted(list(images_dir.glob("*.png")))
    voiceover_files,\* natsorted(list(voiceovers_dir.glob("*.mp3")))
    pos,            \* position of the compose loop in zip(image_files, voiceover_files)
    steps,          \* the probe, resize and encode steps that ran: <<step, file>>
    skipped,        \* the clips the compose loop skipped
    pairs,          \* the (image, voiceover, clip) triples the loop composed
    clipsBefore,    \* the clip files present when generate_videoclips began
    \* ---- assemble_video.py
    manifest,       \* the lines of concat_list.txt; <<>> before it is written
    finalVideo,     \* the output file: "none", "complete" or "partial"
    returned,       \* concatenate_videos' return value, "none" before it returns
    \* ---- the pipeline: the scripts run one after the other on one deck
    deck,           \* the slides of the deck: whether each has a notes frame, and its text
    failedSlide,    \* the slide at which extract_notes caught an exception, 0 for none
    run             \* 0: one script alone; 1, 2: first and second run of the pipeline

retryVars  == <<retryFailed, excKind, headers, slept>>
resizeVars == <<inW, inH, outW, outH, op>>
storeVars  == <<notes, voiceovers, images, clips, written>>
speechVars == <<apiPlan, apiCalls, num_notes, i, fileOps>>
composeVars == <<dirs, overwrite, image_files, voiceover_files, pos, steps, skipped,
                 pairs, clipsBefore>>
concatVars == <<manifest, finalVideo, returned>>
driverVars == <<deck, failedSlide, run>>
vars == <<stage, pc, raised, retryVars, resizeVars, storeVars, speechVars,
          composeVars, concatVars, driverVars>>

(***************************************************************************)
(* Bounds of the model.                                                    *)
(***************************************************************************)
MaxHdrLen == 4      \* longest reset-time hint, in characters
MaxDim    == 6      \* largest image width and height
MaxNotes  == 3      \* largest index of a note file
MaxTextLen == 1     \* longest note text, in characters
MaxPlan   == 2      \* API calls whose answer is planned; later calls succeed
LowIdx    == 2      \* the asset indices of the compose and join stages are
MaxIndex  == 10     \*   1..LowIdx and 10..MaxIndex
MaxSlides == 2      \* most slides of a deck
MaxRuns   == 2      \* runs of the whole pipeline
MaxNoteLen == 2     \* longest notes text of a slide extracted alone, in characters
MaxExtra  == 2      \* largest index in a directory that also holds files of another origin

(***************************************************************************)
(* Sequences.                                                              *)
(***************************************************************************)
RECURSIVE SeqsUpTo(_, _)
SeqsUpTo(S, n) ==
    IF n = 0 THEN {<<>>}
    ELSE LET shorter == SeqsUpTo(S, n - 1)
         IN  shorter \cup {Append(s, c) : s \in {t \in shorter : Len(t) = n - 1}, c \in S}

\* s[:-1]: everything but the last element; the empty string stays empty
DropLast(s) == IF Len(s) = 0 THEN <<>> ELSE SubSeq(s, 1, Len(s) - 1)

(***************************************************************************)
(* Finite maps (a directory: file |-> content).                            *)
(***************************************************************************)
EmptyMap == [x \in {} |-> 0]
Put(f, k, v) == [x \in DOMAIN f \cup {k} |-> IF x = k THEN v ELSE f[x]]
Remove(f, k) == [x \in DOMAIN f \ {k} |-> f[x]]

(***************************************************************************)
(* The parts of the state a script does not use.                           *)
(***************************************************************************)
RetryIdle   == retryFailed = FALSE /\ excKind = "APIError" /\ headers = <<>> /\ slept = 0
ResizeIdle  == inW = 1 /\ inH = 1 /\ outW = 0 /\ outH = 0 /\ op = "none"
SpeechIdle  == /\ apiPlan = <<>> /\ apiCalls = 0 /\ num_notes = 0 /\ i = 0
               /\ fileOps = <<>>
ComposeIdle == /\ dirs = {"images", "voiceovers"} /\ overwrite = FALSE
               /\ image_files = <<>> /\ voiceover_files = <<>> /\ pos = 0
               /\ steps = {} /\ skipped = {} /\ pairs = <<>> /\ clipsBefore = {}
ConcatIdle  == manifest = <<>> /\ finalVideo = "none" /\ returned = "none"
DriverIdle  == deck = <<>> /\ failedSlide = 0 /\ run = 0
StoreEmpty  == /\ notes = EmptyMap /\ voiceovers = EmptyMap /\ images = {}
               /\ clips = EmptyMap /\ written = {}

(***************************************************************************)
(* text2speech.py: the rate-limit wait.                                    *)
(***************************************************************************)
DigitChars == {"0", "1", "2", "6"}
HintChars  == DigitChars \cup {"m", "s"}

DigitVal(c) == CASE c = "0" -> 0 [] c = "1" -> 1 [] c = "2" -> 2 [] c = "6" -> 6

\* int(str) over HintChars: a non-empty run of decimal digits, else ValueError
IsIntLiteral(s) == Len(s) > 0 /\ \A k \in 1..Len(s) : s[k] \in DigitChars

RECURSIVE IntValue(_)
IntValue(s) ==
    IF Len(s) = 0 THEN 0
    ELSE 10 * IntValue(DropLast(s)) + DigitVal(s[Len(s)])

\* response.headers.get("x-ratelimit-reset-requests", "1")
HeaderGet(h) == IF h = <<>> THEN <<"1">> ELSE h[1]

\* int(response.headers.get("x-ratelimit-reset-requests", "1")[:-1])
ParseRateLimitHeaders(h) ==
    LET text == DropLast(HeaderGet(h))
    IN  IF IsIntLiteral(text)
        THEN [ok |-> TRUE,  value |-> IntValue(text)]
        ELSE [ok |-> FALSE, value |-> 0]

HeaderValues == SeqsUpTo(HintChars, MaxHdrLen)
HeaderSets   == {<<>>} \cup {<<v>> : v \in HeaderValues}
ExcKinds     == {"RateLimitError", "APIError"}

InitRetry ==
    /\ stage = "retry" /\ pc = "start" /\ raised = "none"
    /\ retryFailed \in BOOLEAN
    /\ excKind \in ExcKinds
    /\ headers \in HeaderSets
    /\ slept = 0
    /\ ResizeIdle /\ StoreEmpty /\ SpeechIdle /\ ComposeIdle /\ ConcatIdle /\ DriverIdle

\* before_sleep_func(retry_state)
BeforeSleepFunc ==
    /\ stage = "retry" /\ pc = "start"
    /\ IF retryFailed /\ excKind = "RateLimitError"
       THEN LET wait_time == ParseRateLimitHeaders(headers)
            IN  IF wait_time.ok
                THEN /\ slept' = slept + wait_time.value
                     /\ raised' = "none"
                     /\ pc' = "done"
                ELSE /\ slept' = slept
                     /\ raised' = "ValueError"
                     /\ pc' = "raised"
       ELSE /\ slept' = slept /\ raised' = "none" /\ pc' = "done"
    /\ UNCHANGED <<stage, retryFailed, excKind, headers, resizeVars, storeVars,
                   speechVars, composeVars, concatVars, driverVars>>

NextRetry == BeforeSleepFunc
SpecRetry == InitRetry /\ [][NextRetry]_vars

(***************************************************************************)
(* Dimension normalisation.                                                *)
(***************************************************************************)
max_width == 1920

\* width if width % 2 == 0 else width + 1
EvenUp(d) == IF d % 2 = 0 THEN d ELSE d + 1

\* resize_image_to_even_dimensions(image) of pdf2png.py and of Gallery
ResizeImageToEvenDimensions(w, h) == <<EvenUp(w), EvenUp(h)>>

\* the scale filter's size expression iw-mod(iw,2) / ih-mod(ih,2)
ScaleExpr(d) == d - (d % 2)

\* the scale filter: an expression that evaluates to 0 selects the input size
ScaleDim(d) == IF ScaleExpr(d) = 0 THEN d ELSE ScaleExpr(d)

ScaleFilter(w, h) == <<ScaleDim(w), ScaleDim(h)>>

\* new_height = int((height * max_width) / width): computed, never used
NewHeight(w, h) == (h * max_width) \div w

InitResize ==
    /\ stage = "resize" /\ pc = "start" /\ raised = "none"
    /\ inW \in 1..MaxDim /\ inH \in 1..MaxDim
    /\ outW = 0 /\ outH = 0 /\ op = "none"
    /\ RetryIdle /\ StoreEmpty /\ SpeechIdle /\ ComposeIdle /\ ConcatIdle /\ DriverIdle

Normalise(name, size) ==
    /\ stage = "resize" /\ pc = "start"
    /\ op' = name /\ outW' = size[1] /\ outH' = size[2]
    /\ pc' = "done"
    /\ UNCHANGED <<stage, raised, inW, inH, retryVars, storeVars, speechVars,
                   composeVars, concatVars, driverVars>>

\* pdf2png.py: resized_image = resize_image_to_even_dimensions(image)
RendererResize == Normalise("pdf2png", ResizeImageToEvenDimensions(inW, inH))

\* streamlit_app.py: self.resize_image_to_even_dimensions(images[0])
GalleryResize == Normalise("gallery", ResizeImageToEvenDimensions(inW, inH))

\* generate_videoclips.py: resize_image
ResizeImage == Normalise("resize_image", ScaleFilter(inW, inH))

\* generate_videoclips.py: create_videoclip's -vf scale
CreateVideoclipScale == Normalise("create_videoclip", ScaleFilter(inW, inH))

NextResize == RendererResize \/ GalleryResize \/ ResizeImage \/ CreateVideoclipScale
SpecResize == InitResize /\ [][NextResize]_vars

(***************************************************************************)
(* The files of the asset store.  A file is its index and its extension:   *)
(* image_<n>.png, note_<n>.txt, voiceover_<n>.mp3, voiceover_<n>.temp.mp3, *)
(* videoclip_<n>.mp4.                                                      *)
(***************************************************************************)
Named(pre, n, ext) == [pre |-> pre, n |-> n, ext |-> ext]

\* the prefix the pipeline gives to a file of each kind
PipelinePrefix(ext) ==
    CASE ext = "txt" -> "note_"
      [] ext = "png" -> "image_"
      [] ext \in {"mp3", "temp.mp3"} -> "voiceover_"
      [] ext = "mp4" -> "videoclip_"

File(n, ext) == Named(PipelinePrefix(ext), n, ext)
Note(n)      == File(n, "txt")
Image(n)     == File(n, "png")
Voiceover(n) == File(n, "mp3")
Clip(n)      == File(n, "mp4")

\* a temporary path that is the final path itself
TempPathSame(f) == f

\* path_to_save.with_suffix(".temp.mp3")
TempPath(f) == Named(f.pre, f.n, "temp.mp3")

\* the content of assets/silence.mp3, of the API's payload, of a file cut short
SilenceTrack == <<"silence">>
SpeechBytes  == <<"speech">>
Truncated    == <<"truncated">>

(***************************************************************************)
(* text2speech.py: text_to_speech and the speech stage.                    *)
(***************************************************************************)
WhiteChars == {" "}
TextChars  == {"a"} \cup WhiteChars
Texts      == SeqsUpTo(TextChars, MaxTextLen)

RECURSIVE LStrip(_)
LStrip(s) == IF Len(s) > 0 /\ Head(s) \in WhiteChars THEN LStrip(Tail(s)) ELSE s

RECURSIVE RStrip(_)
RStrip(s) == IF Len(s) > 0 /\ s[Len(s)] \in WhiteChars THEN RStrip(DropLast(s)) ELSE s

\* a test of the text as read, "if not text"
StripNothing(s) == s

\* text.strip()
Strip(s) == RStrip(LStrip(s))

ApiAnswers == {"ok", "RateLimitError", "APIError"}

\* the answer of client.audio.speech.create to its k-th call: the planned
\* one, and the last planned one for every call after the plan
ApiAnswer(k) == IF k \in DOMAIN apiPlan THEN apiPlan[k] ELSE apiPlan[Len(apiPlan)]

\* what ffmpeg.run does with its output file: writes it, fails before it
\* opens it, or fails and leaves it cut short
FfmpegRuns == {"ok", "failed", "failed_partial"}

\* ffmpeg.concat(silent_audio, voiceover_audio, silent_audio, v=0, a=1)
ConcatAudio(a, b, c) == a \o b \o c

\* text_to_speech(api_key, voice, text_file_path, path_to_save, silent_audio_path):
\* the note file and the output file are given, ffmpeg_run is what ffmpeg.run does
TextToSpeech(note_file, path_to_save, ffmpeg_run) ==
    IF note_file \notin DOMAIN notes
    THEN \* logging.warning; return
         /\ UNCHANGED <<voiceovers, written, apiCalls, raised>>
         /\ fileOps' = <<>>
         /\ pc' = "loop"
    ELSE IF Strip(notes[note_file]) = <<>>
    THEN \* shutil.copy(silent_audio_path, path_to_save); return
         /\ voiceovers' = Put(voiceovers, path_to_save, SilenceTrack)
         /\ written' = written \cup {path_to_save}
         /\ fileOps' = <<<<"copy", path_to_save>>>>
         /\ UNCHANGED <<apiCalls, raised>>
         /\ pc' = "loop"
    ELSE LET answer    == ApiAnswer(apiCalls + 1)
             temp_path == TempPath(path_to_save)
             with_temp == Put(voiceovers, temp_path, SpeechBytes)
         IN  /\ apiCalls' = apiCalls + 1
             /\ IF answer # "ok"
                THEN \* the exception leaves text_to_speech (RateLimitError is
                     \* caught and raised again) and the script
                     /\ raised' = answer
                     /\ pc' = "raised"
                     /\ fileOps' = <<>>
                     /\ UNCHANGED <<voiceovers, written>>
                ELSE IF ffmpeg_run = "ok"
                THEN /\ voiceovers' =
                          Remove(Put(with_temp, path_to_save,
                                     ConcatAudio(SilenceTrack, SpeechBytes, SilenceTrack)),
                                 temp_path)
                     /\ written' = written \cup {temp_path, path_to_save}
                     /\ fileOps' = <<<<"write", temp_path>>, <<"concat", path_to_save>>,
                                     <<"unlink", temp_path>>>>
                     /\ UNCHANGED raised
                     /\ pc' = "loop"
                ELSE \* ffmpeg.Error leaves text_to_speech before temp_path.unlink
                     /\ voiceovers' = IF ffmpeg_run = "failed_partial"
                                      THEN Put(with_temp, path_to_save, Truncated)
                                      ELSE with_temp
                     /\ written' = written \cup {temp_path} \cup
                                   (IF ffmpeg_run = "failed_partial" THEN {path_to_save} ELSE {})
                     /\ fileOps' = <<<<"write", temp_path>>, <<"concat", path_to_save>>>>
                     /\ raised' = "ffmpeg.Error"
                     /\ pc' = "raised"

\* __main__ up to the loop: num_notes = len(list(notes_dir.glob("note_*.txt")))
SpeechStart ==
    /\ stage = "speech" /\ pc = "start"
    /\ num_notes' = Cardinality(DOMAIN notes)
    /\ i' = 1
    /\ pc' = "loop"
    /\ dirs' = dirs \cup {"voiceovers"}
    /\ UNCHANGED <<stage, raised, retryVars, resizeVars, storeVars, apiPlan, apiCalls, fileOps,
                   overwrite, image_files, voiceover_files, pos, steps, skipped, pairs,
                   clipsBefore, concatVars, driverVars>>

\* one pass of the loop with a retry wrapper that has no stop condition: a
\* RateLimitError makes the same note be tried again
SpeechNoteRetrying ==
    /\ stage = "speech" /\ pc = "loop" /\ i <= num_notes
    /\ IF /\ Note(i) \in DOMAIN notes
          /\ Strip(notes[Note(i)]) # <<>>
          /\ ApiAnswer(apiCalls + 1) = "RateLimitError"
       THEN /\ apiCalls <= MaxPlan
            /\ apiCalls' = apiCalls + 1
            /\ UNCHANGED <<pc, raised, voiceovers, written, i, fileOps>>
       ELSE /\ \E ffmpeg_run \in FfmpegRuns :
                   TextToSpeech(Note(i), Voiceover(i), ffmpeg_run)
            /\ i' = i + 1
    /\ UNCHANGED <<stage, retryVars, resizeVars, notes, images, clips, apiPlan,
                   num_notes, composeVars, concatVars, driverVars>>

\* one pass of: for i in range(1, num_notes + 1)
SpeechNote ==
    /\ stage = "speech" /\ pc = "loop" /\ i <= num_notes
    /\ \E ffmpeg_run \in FfmpegRuns : TextToSpeech(Note(i), Voiceover(i), ffmpeg_run)
    /\ i' = i + 1
    /\ UNCHANGED <<stage, retryVars, resizeVars, notes, images, clips, apiPlan,
                   num_notes, composeVars, concatVars, driverVars>>

\* the loop is exhausted and the script ends
SpeechEnd ==
    /\ stage = "speech" /\ pc = "loop" /\ i > num_notes
    /\ pc' = "done"
    /\ UNCHANGED <<stage, raised, retryVars, resizeVars, storeVars, speechVars,
                   composeVars, concatVars, driverVars>>

NoteDirs == UNION {[S -> Texts] : S \in SUBSET {Note(n) : n \in 1..MaxNotes}}
RateLimitHeaders == {<<>>, << <<"2", "s">> >>}

InitSpeech ==
    /\ stage = "speech" /\ pc = "start" /\ raised = "none"
    /\ notes \in NoteDirs
    /\ voiceovers = EmptyMap /\ images = {} /\ clips = EmptyMap /\ written = {}
    /\ apiPlan \in [1..MaxPlan -> ApiAnswers]
    /\ apiCalls = 0 /\ num_notes = 0 /\ i = 0 /\ fileOps = <<>>
    /\ retryFailed = FALSE /\ excKind = "APIError" /\ slept = 0
    /\ headers \in RateLimitHeaders
    /\ ResizeIdle /\ ComposeIdle /\ ConcatIdle /\ DriverIdle

NextSpeech == SpeechStart \/ SpeechNote \/ SpeechEnd
SpecSpeech == InitSpeech /\ [][NextSpeech]_vars

\* the speech stage against an API that answers every call with a
\* RateLimitError; the script, once started, keeps running until it ends
InitSpeechRateLimited ==
    /\ InitSpeech
    /\ \A k \in DOMAIN apiPlan : apiPlan[k] = "RateLimitError"

SpecSpeechRateLimited ==
    InitSpeechRateLimited /\ [][NextSpeech]_vars /\ WF_vars(NextSpeech)

(***************************************************************************)
(* File names and their orderings.  A name is its prefix, the index in     *)
(* decimal and the extension, compared as character codes.  The pipeline   *)
(* writes "note_", "image_", "voiceover_" and "videoclip_"; a directory    *)
(* may also hold files of another origin, "extra_<n>.<ext>".               *)
(***************************************************************************)
RECURSIVE Digits(_)
Digits(n) == IF n < 10 THEN <<n>> ELSE Append(Digits(n \div 10), n % 10)

\* the decimal numeral of n, as character codes ("0" is 48)
Numeral(n) == [k \in 1..Len(Digits(n)) |-> 48 + Digits(n)[k]]

\* the character codes of ".png", ".mp3", ".temp.mp3", ".mp4", ".txt", ".temp"
ExtCodes(ext) ==
    CASE ext = "png"      -> <<46, 112, 110, 103>>
      [] ext = "mp3"      -> <<46, 109, 112, 51>>
      [] ext = "temp.mp3" -> <<46, 116, 101, 109, 112, 46, 109, 112, 51>>
      [] ext = "mp4"      -> <<46, 109, 112, 52>>
      [] ext = "txt"      -> <<46, 116, 120, 116>>

\* the character codes of the prefixes
PrefixCodes(pre) ==
    CASE pre = "note_"      -> <<110, 111, 116, 101, 95>>
      [] pre = "image_"     -> <<105, 109, 97, 103, 101, 95>>
      [] pre = "voiceover_" -> <<118, 111, 105, 99, 101, 111, 118, 101, 114, 95>>
      [] pre = "videoclip_" -> <<118, 105, 100, 101, 111, 99, 108, 105, 112, 95>>
      [] pre = "extra_"     -> <<101, 120, 116, 114, 97, 95>>

\* path.name
NameCodes(f) == PrefixCodes(f.pre) \o Numeral(f.n) \o ExtCodes(f.ext)

\* path.stem.split("_")[-1]: the stem after its last underscore
Suffix(f) ==
    Numeral(f.n) \o (IF f.ext = "temp.mp3" THEN <<46, 116, 101, 109, 112>> ELSE <<>>)

\* path.stem: the name without its last extension
StemCodes(f) == PrefixCodes(f.pre) \o Suffix(f)

\* the order of Python strings (and of lists of numbers), decided at the
\* first position k where the two differ or one of them ends
RECURSIVE LexLessFrom(_, _, _)
LexLessFrom(a, b, k) ==
    IF k > Len(b) THEN FALSE
    ELSE IF k > Len(a) THEN TRUE
    ELSE IF a[k] # b[k] THEN a[k] < b[k]
    ELSE LexLessFrom(a, b, k + 1)

LexLess(a, b) == LexLessFrom(a, b, 1)

\* natsort's key: the name split into numbers and the text between them; the
\* 0 ends the leading text, so that a shorter text sorts before its extensions
NatsortKey(f) == PrefixCodes(f.pre) \o <<0>> \o <<f.n>> \o ExtCodes(f.ext)

RECURSIVE SortedByKey(_, _)
SortedByKey(S, key) ==
    IF S = {} THEN <<>>
    ELSE LET first == CHOOSE x \in S : \A y \in S \ {x} : LexLess(key[x], key[y])
         IN  <<first>> \o SortedByKey(S \ {first}, key)

\* sorted(paths): paths compare as their names do
Sorted(S) == SortedByKey(S, [f \in S |-> NameCodes(f)])

\* sorted(paths, key=lambda x: x.stem)
SortedByStem(S) == SortedByKey(S, [f \in S |-> StemCodes(f)])

\* natsorted(paths)
Natsorted(S) == SortedByKey(S, [f \in S |-> NatsortKey(f)])

(***************************************************************************)
(* generate_videoclips.py                                                  *)
(***************************************************************************)
\* images_dir.glob("*.png") and voiceovers_dir.glob("*.mp3")
GlobPng == {f \in images : f.ext = "png"}
GlobMp3 == {f \in DOMAIN voiceovers : f.ext \in {"mp3", "temp.mp3"}}

\* validate_files without its comparison of the suffixes
ValidateFilesByCount ==
    IF Cardinality(GlobPng) # Cardinality(GlobMp3) THEN "count" ELSE "ok"

\* validate_files without its comparison of the counts: zip stops at the shorter list
ValidateFilesBySuffix ==
    LET imgs == Sorted(GlobPng)
        vos  == Sorted(GlobMp3)
    IN  IF \E k \in 1..Len(imgs) : k <= Len(vos) /\ Suffix(imgs[k]) # Suffix(vos[k])
        THEN "mismatch" ELSE "ok"

\* validate_files comparing the suffixes of the first pair only
ValidateFilesFirstPair ==
    LET imgs == Sorted(GlobPng)
        vos  == Sorted(GlobMp3)
    IN  IF Len(imgs) # Len(vos) THEN "count"
        ELSE IF Len(imgs) >= 1 /\ Suffix(imgs[1]) # Suffix(vos[1]) THEN "mismatch"
        ELSE "ok"

\* validate_files: "ok", or the ValueError it raises
ValidateFiles ==
    LET imgs == Sorted(GlobPng)
        vos  == Sorted(GlobMp3)
    IN  IF Len(imgs) # Len(vos) THEN "count"
        ELSE IF \E k \in 1..Len(imgs) : Suffix(imgs[k]) # Suffix(vos[k]) THEN "mismatch"
        ELSE "ok"

\* the pair named by f"Image {image_file} and voiceover {voiceover_file} do not
\* match.": the first
\* pair of the sorted lists whose suffixes differ (<<>> when there is none)
MismatchedFiles ==
    LET imgs == Sorted(GlobPng)
        vos  == Sorted(GlobMp3)
        bad  == {k \in 1..Len(imgs) : k <= Len(vos) /\ Suffix(imgs[k]) # Suffix(vos[k])}
    IN  IF bad = {} THEN <<>>
        ELSE LET k == CHOOSE m \in bad : \A o \in bad : m <= o
             IN  <<imgs[k], vos[k]>>

\* videoclips_dir / f"videoclip_{image_file.stem.split('_')[-1]}.mp4"
VideoClipPath(image_file) == Clip(image_file.n)

\* the test of the compose loop with the existence check inverted
ShouldComposeExisting(video_clip_path) == video_clip_path \in DOMAIN clips \/ overwrite

\* if not video_clip_path.exists() or overwrite
ShouldCompose(video_clip_path) == video_clip_path \notin DOMAIN clips \/ overwrite

Zip(a, b) == [k \in 1..(IF Len(a) < Len(b) THEN Len(a) ELSE Len(b)) |-> <<a[k], b[k]>>]

\* the directory test passing when either directory exists
DirsExistEither == "images" \in dirs \/ "voiceovers" \in dirs

\* images_dir.exists() and voiceovers_dir.exists()
DirsExist == {"images", "voiceovers"} \subseteq dirs

\* generate_videoclips up to its loop
ComposeStart ==
    /\ stage = "compose" /\ pc = "start"
    /\ clipsBefore' = DOMAIN clips
    /\ steps' = {} /\ skipped' = {} /\ pairs' = <<>>
    /\ IF ~ DirsExist
       THEN /\ raised' = "ValueError: directories"
            /\ pc' = "raised"
            /\ dirs' = dirs \cup {"videoclips"}
            /\ UNCHANGED <<image_files, voiceover_files, pos>>
       ELSE /\ dirs' = dirs \cup {"videoclips", "resized"}
            /\ IF ValidateFiles # "ok"
               THEN /\ raised' = "ValueError: " \o ValidateFiles
                    /\ pc' = "raised"
                    /\ UNCHANGED <<image_files, voiceover_files, pos>>
               ELSE /\ image_files' = Natsorted(GlobPng)
                    /\ voiceover_files' = Natsorted(GlobMp3)
                    /\ pos' = 1
                    /\ pc' = "loop"
                    /\ UNCHANGED raised
    /\ UNCHANGED <<stage, retryVars, resizeVars, storeVars, speechVars, overwrite,
                   concatVars, driverVars>>

\* what one pass of the loop meets: a probe or the resize raising ffmpeg.Error,
\* or the encoder's result
StepResults == {"probe_image_error", "probe_voiceover_error", "resize_error",
                "encoded", "encoder_failed", "encoder_timeout"}

StepsRun(result, image_file, voiceover_file) ==
    {<<"probe", image_file>>}
    \cup (IF result # "probe_image_error" THEN {<<"probe", voiceover_file>>} ELSE {})
    \cup (IF result \notin {"probe_image_error", "probe_voiceover_error"}
          THEN {<<"resize", image_file>>} ELSE {})
    \cup (IF result \in {"encoded", "encoder_failed", "encoder_timeout"}
          THEN {<<"encode", image_file>>} ELSE {})

\* one pass of: for image_file, voiceover_file in zip(image_files, voiceover_files)
ComposePair ==
    /\ stage = "compose" /\ pc = "loop"
    /\ pos <= Len(Zip(image_files, voiceover_files))
    /\ LET image_file      == image_files[pos]
           voiceover_file  == voiceover_files[pos]
           video_clip_path == VideoClipPath(image_file)
       IN  IF ~ShouldCompose(video_clip_path)
           THEN /\ skipped' = skipped \cup {video_clip_path}
                /\ pos' = pos + 1
                /\ UNCHANGED <<pc, raised, steps, pairs, clips, written>>
           ELSE \E result \in StepResults, leaves_file \in BOOLEAN :
                /\ steps' = steps \cup StepsRun(result, image_file, voiceover_file)
                /\ pairs' = Append(pairs, <<image_file, voiceover_file, video_clip_path>>)
                /\ IF result \in {"probe_image_error", "probe_voiceover_error", "resize_error"}
                   THEN \* check_file_format and resize_image raise again
                        /\ raised' = "ffmpeg.Error"
                        /\ pc' = "raised"
                        /\ UNCHANGED <<pos, clips, written>>
                   ELSE \* create_videoclip returns True or False; the value is dropped
                        /\ clips' = IF result = "encoded"
                                    THEN Put(clips, video_clip_path, "complete")
                                    ELSE IF leaves_file
                                    THEN Put(clips, video_clip_path, "partial")
                                    ELSE clips
                        /\ written' = IF result = "encoded" \/ leaves_file
                                      THEN written \cup {video_clip_path}
                                      ELSE written
                        /\ pos' = pos + 1
                        /\ UNCHANGED <<pc, raised>>
                /\ UNCHANGED skipped
    /\ UNCHANGED <<stage, retryVars, resizeVars, notes, voiceovers, images, speechVars,
                   dirs, overwrite, image_files, voiceover_files, clipsBefore, concatVars, driverVars>>

\* the loop is exhausted and generate_videoclips returns
ComposeEnd ==
    /\ stage = "compose" /\ pc = "loop"
    /\ pos > Len(Zip(image_files, voiceover_files))
    /\ pc' = "done"
    /\ UNCHANGED <<stage, raised, retryVars, resizeVars, storeVars, speechVars,
                   composeVars, concatVars, driverVars>>

\* the asset indices of the compose and join stages
Indices == (1..LowIdx) \cup (10..MaxIndex)

ClipDirs(S) ==
    UNION {[D -> {"complete", "partial"}] : D \in SUBSET {Clip(f.n) : f \in S}}

InitCompose ==
    /\ stage = "compose" /\ pc = "start" /\ raised = "none"
    /\ notes = EmptyMap /\ written = {}
    /\ images \in SUBSET {Image(n) : n \in Indices}
    /\ \E D \in SUBSET {Voiceover(n) : n \in Indices} :
           voiceovers = [f \in D |-> SilenceTrack]
    /\ clips \in ClipDirs(images)
    /\ overwrite \in BOOLEAN
    /\ dirs \in {D \in SUBSET {"images", "voiceovers"} :
                   /\ images # {} => "images" \in D
                   /\ DOMAIN voiceovers # {} => "voiceovers" \in D}
    /\ image_files = <<>> /\ voiceover_files = <<>> /\ pos = 0
    /\ steps = {} /\ skipped = {} /\ pairs = <<>> /\ clipsBefore = {}
    /\ RetryIdle /\ ResizeIdle /\ SpeechIdle /\ ConcatIdle /\ DriverIdle

NextCompose == ComposeStart \/ ComposePair \/ ComposeEnd
SpecCompose == InitCompose /\ [][NextCompose]_vars

\* generate_videoclips.py run on directories that hold, beside the pipeline's
\* files, files of another origin that the patterns "*.png" and "*.mp3" match
InitComposeAnyNames ==
    /\ stage = "compose" /\ pc = "start" /\ raised = "none"
    /\ notes = EmptyMap /\ written = {} /\ clips = EmptyMap
    /\ images \in SUBSET {Named(pre, n, "png") :
                             pre \in {"image_", "extra_"}, n \in 1..MaxExtra}
    /\ \E D \in SUBSET {Named(pre, n, "mp3") :
                             pre \in {"voiceover_", "extra_"}, n \in 1..MaxExtra} :
           voiceovers = [f \in D |-> SilenceTrack]
    /\ overwrite \in BOOLEAN
    /\ dirs = {"images", "voiceovers"}
    /\ image_files = <<>> /\ voiceover_files = <<>> /\ pos = 0
    /\ steps = {} /\ skipped = {} /\ pairs = <<>> /\ clipsBefore = {}
    /\ RetryIdle /\ ResizeIdle /\ SpeechIdle /\ ConcatIdle /\ DriverIdle

SpecComposeAnyNames == InitComposeAnyNames /\ [][NextCompose]_vars

(***************************************************************************)
(* assemble_video.py                                                       *)
(***************************************************************************)
\* create_concat_file: the lines written to concat_list.txt
CreateConcatFile == SortedByStem({f \in DOMAIN clips : f.ext = "mp4"})

\* what the join command does: exits 0 with the output written, exits non-zero
\* before it opens the output, or exits non-zero with the output cut short
JoinRuns == {"ok", "failed", "failed_partial"}

\* concatenate_videos(assets_dir, output_path)
ConcatenateVideos ==
    /\ stage = "concat" /\ pc = "start"
    /\ manifest' = CreateConcatFile
    /\ \E join \in JoinRuns :
        /\ join = "ok" => manifest' # <<>>
        /\ finalVideo' = CASE join = "ok" -> "complete"
                           [] join = "failed" -> finalVideo
                           [] join = "failed_partial" -> "partial"
        /\ returned' = IF join = "ok" THEN "True" ELSE "False"
    /\ pc' = "done"
    /\ dirs' = dirs \cup {"output"}
    /\ UNCHANGED <<stage, raised, retryVars, resizeVars, storeVars, speechVars, overwrite,
                   image_files, voiceover_files, pos, steps, skipped, pairs, clipsBefore,
                   driverVars>>

InitConcat ==
    /\ stage = "concat" /\ pc = "start" /\ raised = "none"
    /\ notes = EmptyMap /\ voiceovers = EmptyMap /\ written = {}
    /\ images = {Image(n) : n \in Indices}
    /\ clips \in ClipDirs(images)
    /\ manifest = <<>> /\ returned = "none"
    /\ finalVideo \in {"none", "complete"}
    /\ RetryIdle /\ ResizeIdle /\ SpeechIdle /\ ComposeIdle /\ DriverIdle

NextConcat == ConcatenateVideos
SpecConcat == InitConcat /\ [][NextConcat]_vars

(***************************************************************************)
(* extract_notes.py and pdf2png.py                                         *)
(***************************************************************************)
\* a slide: whether it has a notes text frame, and the frame's text
Slides == {[frame |-> FALSE, text |-> <<>>]} \cup {[frame |-> TRUE, text |-> t] : t \in Texts}
Decks  == {d \in SeqsUpTo(Slides, MaxSlides) : Len(d) >= 1}

\* the loop of extract_notes numbering the slides from 0
RECURSIVE NotesWrittenFromZero(_, _, _)
NotesWrittenFromZero(dir, d, k) ==
    IF k = 0 THEN dir
    ELSE LET before == NotesWrittenFromZero(dir, d, k - 1)
         IN  IF d[k].frame THEN Put(before, Note(k - 1), Strip(d[k].text)) ELSE before

RECURSIVE NotesWritten(_, _, _)
\* the note files after the loop of extract_notes has passed slides 1..k
NotesWritten(dir, d, k) ==
    IF k = 0 THEN dir
    ELSE LET before == NotesWritten(dir, d, k - 1)
         IN  IF d[k].frame THEN Put(before, Note(k), Strip(d[k].text)) ELSE before

\* extract_notes(input_pptx): fail_at is the slide whose notes raise, 0 for none.
\* The exception is caught around the whole loop and logged.
ExtractNotes ==
    /\ stage = "notes" /\ pc = "start"
    /\ \E fail_at \in 0..Len(deck) :
        LET passed == IF fail_at = 0 THEN Len(deck) ELSE fail_at - 1
        IN  /\ notes' = NotesWritten(notes, deck, passed)
            /\ written' = written \cup {Note(k) : k \in {j \in 1..passed : deck[j].frame}}
            /\ failedSlide' = fail_at
    /\ pc' = "done"
    /\ dirs' = dirs \cup {"notes"}
    /\ UNCHANGED <<stage, raised, retryVars, resizeVars, voiceovers, images, clips,
                   speechVars, overwrite, image_files, voiceover_files, pos, steps,
                   skipped, pairs, clipsBefore, concatVars, deck, run>>

\* extract_notes.py run alone, on a notes directory that is empty or holds
\* the note of an earlier deck
NoteSlides == {[frame |-> FALSE, text |-> <<>>]}
              \cup {[frame |-> TRUE, text |-> t] : t \in SeqsUpTo(TextChars, MaxNoteLen)}
NoteDecks  == {d \in SeqsUpTo(NoteSlides, MaxSlides) : Len(d) >= 1}

InitNotes ==
    /\ stage = "notes" /\ pc = "start" /\ raised = "none"
    /\ deck \in NoteDecks /\ failedSlide = 0 /\ run = 0
    /\ notes \in {EmptyMap, [f \in {Note(1)} |-> <<"a", "a">>]}
    /\ voiceovers = EmptyMap /\ images = {} /\ clips = EmptyMap /\ written = {}
    /\ RetryIdle /\ ResizeIdle /\ SpeechIdle /\ ComposeIdle /\ ConcatIdle

NextNotes == ExtractNotes
SpecNotes == InitNotes /\ [][NextNotes]_vars

\* extract_images_from_pdf(pdf_path): one page per slide; convert_from_path may raise
ExtractImagesFromPdf ==
    /\ stage = "render" /\ pc = "start"
    /\ \E converted \in BOOLEAN :
        IF converted
        THEN /\ images' = images \cup {Image(k) : k \in 1..Len(deck)}
             /\ written' = written \cup {Image(k) : k \in 1..Len(deck)}
             /\ pc' = "done"
             /\ UNCHANGED raised
        ELSE /\ raised' = "PDFPageCountError"
             /\ pc' = "raised"
             /\ UNCHANGED <<images, written>>
    /\ dirs' = dirs \cup {"images"}
    /\ UNCHANGED <<stage, retryVars, resizeVars, notes, voiceovers, clips,
                   speechVars, overwrite, image_files, voiceover_files, pos, steps,
                   skipped, pairs, clipsBefore, concatVars, driverVars>>

(***************************************************************************)
(* The pipeline: the scripts in dependency order, then once more on the    *)
(* same deck and the same asset store.                                     *)
(***************************************************************************)
StageOrder == <<"notes", "speech", "render", "compose", "concat">>

StageAfter(s) == StageOrder[(CHOOSE k \in 1..Len(StageOrder) : StageOrder[k] = s) + 1]

\* a script has ended normally and the next one is started
NextScript ==
    /\ run >= 1 /\ pc = "done" /\ stage # "concat"
    /\ stage' = StageAfter(stage)
    /\ pc' = "start"
    /\ UNCHANGED <<raised, retryVars, resizeVars, storeVars, speechVars, composeVars,
                   concatVars, driverVars>>

\* the last script has ended normally and the pipeline is run again
NextRun ==
    /\ run >= 1 /\ run < MaxRuns /\ pc = "done" /\ stage = "concat"
    /\ run' = run + 1
    /\ stage' = "notes"
    /\ pc' = "start"
    /\ written' = {}
    /\ apiCalls' = 0
    /\ UNCHANGED <<raised, retryVars, resizeVars, notes, voiceovers, images, clips,
                   apiPlan, num_notes, i, fileOps, composeVars, concatVars, deck,
                   failedSlide>>

InitPipeline ==
    /\ stage = "notes" /\ pc = "start" /\ raised = "none"
    /\ deck \in Decks /\ failedSlide = 0 /\ run = 1
    /\ StoreEmpty
    /\ apiPlan \in [1..MaxPlan -> ApiAnswers]
    /\ apiCalls = 0 /\ num_notes = 0 /\ i = 0 /\ fileOps = <<>>
    /\ dirs = {} /\ overwrite = FALSE
    /\ image_files = <<>> /\ voiceover_files = <<>> /\ pos = 0
    /\ steps = {} /\ skipped = {} /\ pairs = <<>> /\ clipsBefore = {}
    /\ RetryIdle /\ ResizeIdle /\ ConcatIdle

NextPipeline ==
    \/ ExtractNotes
    \/ SpeechStart \/ SpeechNote \/ SpeechEnd
    \/ ExtractImagesFromPdf
    \/ ComposeStart \/ ComposePair \/ ComposeEnd
    \/ ConcatenateVideos
    \/ NextScript \/ NextRun
SpecPipeline == InitPipeline /\ [][NextPipeline]_vars

(***************************************************************************)
(* Properties of the speech stage.                                         *)
(***************************************************************************)
\* the note files whose text is sent to the speech API
Spoken == {n \in 1..MaxNotes : Note(n) \in DOMAIN notes /\ Strip(notes[Note(n)]) # <<>>}

\* the first note the speech stage sends to the API
FirstSpoken == CHOOSE n \in Spoken : \A m \in Spoken : n <= m

\* C1: when the first synthesis call fails with a rate-limit error whose reset
\* hint is "2s" and the next call would succeed, the slide does not fail: the
\* stage sleeps at least 2 seconds, calls again (2 calls when the slide is
\* done) and the slide's voiceover is produced.
C1_RateLimitRetried ==
    (/\ stage = "speech" /\ apiCalls >= 1
     /\ ApiAnswer(1) = "RateLimitError" /\ ApiAnswer(2) = "ok"
     /\ headers = << <<"2", "s">> >>)
    => /\ raised # "RateLimitError"
       /\ slept >= 2
       /\ apiCalls >= 2
       /\ (i = FirstSpoken + 1 => apiCalls = 2)
       /\ (raised = "none" => Voiceover(FirstSpoken) \in DOMAIN voiceovers)

\* C5: a pass of the speech loop over a note whose text is empty or only
\* whitespace makes no API call, raises nothing, and leaves at the output path
\* a file equal to the silence track.
C5_BlankNoteSilence ==
    [][(/\ stage = "speech" /\ pc = "loop" /\ i <= num_notes
        /\ Note(i) \in DOMAIN notes
        /\ \A k \in 1..Len(notes[Note(i)]) : notes[Note(i)][k] \in WhiteChars)
       => (/\ apiCalls' = apiCalls
           /\ raised' = "none" /\ pc' = "loop"
           /\ Voiceover(i) \in DOMAIN voiceovers'
           /\ voiceovers'[Voiceover(i)] = SilenceTrack)]_vars

\* a whitespace-only note has been passed and its voiceover is the silence track
C5_Witness ==
    /\ stage = "speech" /\ pc = "loop" /\ i = 2 /\ apiCalls = 0
    /\ Note(1) \in DOMAIN notes /\ notes[Note(1)] = <<" ">>
    /\ Voiceover(1) \in DOMAIN voiceovers /\ voiceovers[Voiceover(1)] = SilenceTrack

\* C6: a run of the speech stage in which nothing fails produces exactly one
\* voiceover_<n>.mp3 for each note_<n>.txt present, and no other voiceover.
C6_VoiceoverPerNote ==
    (stage = "speech" /\ pc = "done")
    => {f \in DOMAIN voiceovers : f.ext = "mp3"} = {Voiceover(f.n) : f \in DOMAIN notes}

(***************************************************************************)
(* Properties of the rate-limit wait.                                      *)
(***************************************************************************)
\* C10: for a rate-limit failure whose response has no reset header, the wait
\* is exactly 1 second and computing it raises nothing.
C10_DefaultWait ==
    (/\ stage = "retry" /\ pc # "start"
     /\ retryFailed /\ excKind = "RateLimitError" /\ headers = <<>>)
    => (raised = "none" /\ slept = 1)

C3_CountMismatchFatal ==
    (/\ stage = "compose" /\ pc # "start"
     /\ Cardinality(GlobPng) # Cardinality(GlobMp3))
    => /\ pc = "raised"
       /\ raised \in {"ValueError: count", "ValueError: directories"}
       /\ steps = {} /\ pairs = <<>> /\ skipped = {}
       /\ written = {} /\ DOMAIN clips = clipsBefore

\* validation has failed on one voiceover more than there are images
C3_Witness ==
    /\ stage = "compose" /\ pc = "raised" /\ raised = "ValueError: count"
    /\ Cardinality(GlobPng) >= 1
    /\ Cardinality(GlobMp3) = Cardinality(GlobPng) + 1

\* C7: with overwrite disabled, no probe, resize or encode step runs for an
\* index whose clip existed and that clip is not written; when the run ends
\* the skipped clips are the clips that existed, and a run that finds all its
\* clips composes none.
C7_ExistingClipsSkipped ==
    (stage = "compose" /\ pc # "start" /\ ~overwrite)
    => /\ \A c \in clipsBefore :
            /\ c \notin written
            /\ \A s \in steps : s[2].n # c.n
            /\ \A k \in 1..Len(pairs) : pairs[k][3] # c
       /\ pc = "done" =>
            /\ skipped = clipsBefore
            /\ Cardinality(skipped) = Cardinality(clipsBefore)
            /\ Len(pairs) = Cardinality(GlobPng) - Cardinality(clipsBefore)
            /\ (clipsBefore = {Clip(f.n) : f \in GlobPng} => pairs = <<>> /\ steps = {})

\* a run ended that skipped two existing clips and composed the one missing
C7_Witness ==
    /\ stage = "compose" /\ pc = "done" /\ ~overwrite
    /\ Cardinality(skipped) = 2 /\ Len(pairs) = 1

(***************************************************************************)
(* Properties of the join stage.                                           *)
(***************************************************************************)
\* C4: the manifest lists exactly the clips of the directory, each once, in
\* ascending numeric order of their indices.
C4_ManifestNumericOrder ==
    (stage = "concat" /\ pc = "done")
    => /\ Len(manifest) = Cardinality(DOMAIN clips)
       /\ {manifest[k] : k \in 1..Len(manifest)} = DOMAIN clips
       /\ \A j, k \in 1..Len(manifest) : j < k => manifest[j].n < manifest[k].n

(***************************************************************************)
(* Properties of dimension normalisation.                                  *)
(***************************************************************************)
Abs(x) == IF x < 0 THEN -x ELSE x

\* C9: each normalising step yields an even width and an even height, each
\* within 1 pixel of the input's, and leaves an even-sized input at its size.
C9_EvenWithinOne ==
    (stage = "resize" /\ op # "none")
    => /\ outW % 2 = 0 /\ outH % 2 = 0
       /\ Abs(outW - inW) <= 1 /\ Abs(outH - inH) <= 1
       /\ (inW % 2 = 0 /\ inH % 2 = 0 => outW = inW /\ outH = inH)

(***************************************************************************)
(* Properties of the pipeline.                                             *)
(***************************************************************************)
\* C8: the second run of the pipeline, overwrite disabled and the deck
\* unchanged, writes no image and no voiceover and calls the speech API never.
C8_SecondRunWritesNothing ==
    run = 2
    => /\ apiCalls = 0
       /\ \A f \in written : f.ext \notin {"png", "mp3"}

(***************************************************************************)
(* Properties of failure handling.                                         *)
(***************************************************************************)
\* C11: a synthesis failure that is no rate-limit error does not stop the
\* speech stage: when the stage has stopped, no note file after the failed
\* index is left unvisited.
C11_SpeechFailureIsolated ==
    (stage = "speech" /\ raised = "APIError" /\ pc \in {"raised", "done"})
    => \A j \in i..num_notes : Note(j) \notin DOMAIN notes

\* C12: a failing step of one pair (probe, resize, encoder timeout, encoder
\* exit status) does not make generate_videoclips raise: once the pairs are
\* validated it ends normally, having met every validated pair.
C12_ComposeFailureIsolated ==
    (stage = "compose" /\ (pairs # <<>> \/ skipped # {}))
    => /\ pc # "raised" /\ raised = "none"
       /\ pc = "done" => Len(pairs) + Cardinality(skipped) = Len(image_files)

\* C13: when the join command exits non-zero, concatenate_videos returns False
\* and the output path holds no cut-short file: it holds nothing, or the
\* complete file of an earlier run.
C13_NoPartialFinalVideo ==
    (stage = "concat" /\ pc = "done" /\ returned # "True")
    => (returned = "False" /\ finalVideo \in {"none", "complete"})

\* C18: concatenate_videos reports success only over a complete clip set:
\* every index that has an image and a voiceover has its clip.
C18_JoinNeedsAllClips ==
    (stage = "concat" /\ pc = "done" /\ returned = "True")
    => \A f \in images :
         Voiceover(f.n) \in DOMAIN voiceovers => Clip(f.n) \in DOMAIN clips

C17_MissingDirectoryFatal ==
    (/\ stage = "compose" /\ pc # "start"
     /\ ("images" \notin dirs \/ "voiceovers" \notin dirs))
    => /\ pc = "raised" /\ raised = "ValueError: directories"
       /\ "resized" \notin dirs
       /\ image_files = <<>> /\ voiceover_files = <<>>
       /\ steps = {} /\ skipped = {} /\ pairs = <<>>
       /\ DOMAIN clips = clipsBefore

\* the voiceovers directory holds files, the images directory is missing, and
\* the run has ended with the directory error
C17_Witness ==
    /\ stage = "compose" /\ pc = "raised" /\ raised = "ValueError: directories"
    /\ "voiceovers" \in dirs /\ "images" \notin dirs
    /\ GlobMp3 # {}

(***************************************************************************)
(* Properties of the reset-time hint.                                      *)
(***************************************************************************)
\* the longest prefix of s made of decimal digits
RECURSIVE LeadingDigits(_)
LeadingDigits(s) ==
    IF Len(s) = 0 \/ s[1] \notin DigitChars THEN <<>>
    ELSE <<s[1]>> \o LeadingDigits(Tail(s))

\* a leading non-negative integer followed by a unit suffix: "2s", "20ms", "6m0s"
IsResetHint(s) ==
    /\ LeadingDigits(s) # <<>>
    /\ Len(LeadingDigits(s)) < Len(s)
    /\ s[Len(s)] \notin DigitChars

\* C20: for every reset-time hint made of a leading integer and a unit suffix,
\* parse_rate_limit_headers raises nothing and returns the leading integer,
\* which is the time slept.
C20_LeadingIntegerParsed ==
    (/\ stage = "retry" /\ pc # "start"
     /\ retryFailed /\ excKind = "RateLimitError"
     /\ headers # <<>> /\ IsResetHint(headers[1]))
    => (raised = "none" /\ slept = IntValue(LeadingDigits(headers[1])))

(***************************************************************************)
(* Properties of the notes extraction.                                     *)
(***************************************************************************)
\* t is s without its leading and its trailing whitespace
IsTrimOf(t, s) ==
    /\ \E lo, hi \in 0..Len(s) :
          /\ lo + hi <= Len(s)
          /\ t = SubSeq(s, lo + 1, Len(s) - hi)
          /\ \A k \in 1..lo : s[k] \in WhiteChars
          /\ \A k \in (Len(s) - hi + 1)..Len(s) : s[k] \in WhiteChars
    /\ t # <<>> => (t[1] \notin WhiteChars /\ t[Len(t)] \notin WhiteChars)

\* C15: after extract_notes has read a deck of N slides without an error, the
\* k-th slide with a notes frame has note_<k>.txt written, holding its text
\* without leading and trailing whitespace (an empty file for an empty text);
\* a slide without a notes frame has no file written, and no note file of an
\* index outside 1..N is written.
C15_NotePerSlide ==
    (stage = "notes" /\ run = 0 /\ pc = "done" /\ failedSlide = 0)
    => /\ \A k \in 1..Len(deck) :
            IF deck[k].frame
            THEN /\ Note(k) \in written
                 /\ Note(k) \in DOMAIN notes
                 /\ IsTrimOf(notes[Note(k)], deck[k].text)
                 /\ deck[k].text = <<>> => notes[Note(k)] = <<>>
            ELSE Note(k) \notin written
       /\ \A f \in written : f.ext = "txt" /\ f.n \in 1..Len(deck)

\* a deck whose first slide has no notes frame and whose second slide has a
\* text with whitespace on both sides: only note_2.txt is written, trimmed
C15_Witness ==
    /\ stage = "notes" /\ run = 0 /\ pc = "done" /\ failedSlide = 0
    /\ Len(deck) = 2 /\ ~ deck[1].frame
    /\ deck[2].frame /\ deck[2].text = <<" ", "a">>
    /\ written = {Note(2)} /\ notes[Note(2)] = <<"a">>

\* C16: when reading the notes of slide k raises, extract_notes goes on with
\* the next slide: every later slide with a notes frame has its note written.
C16_ExtractionFailureIsolated ==
    (stage = "notes" /\ pc = "done" /\ failedSlide > 0)
    => \A j \in (failedSlide + 1)..Len(deck) : deck[j].frame => Note(j) \in written

(***************************************************************************)
(* Termination of the speech stage.                                        *)
(***************************************************************************)
\* C19: under an API that answers every call with a rate-limit error, the
\* attempts are bounded (at most one call is ever made) and the speech stage
\* eventually finishes, normally or by the error leaving the script.
C19_RateLimitedStageEnds ==
    /\ [](stage = "speech" => apiCalls <= 1)
    /\ <>(stage = "speech" /\ pc \in {"done", "raised"})

\* a note with text was sent to the API once, the answer was the rate-limit
\* error and the script has ended with it
C19_Witness ==
    /\ stage = "speech" /\ pc = "raised" /\ raised = "RateLimitError"
    /\ \A k \in DOMAIN apiPlan : apiPlan[k] = "RateLimitError"
    /\ apiCalls = 1
    /\ \E f \in DOMAIN notes : Strip(notes[f]) # <<>>

(***************************************************************************)
(* Properties of the rounding direction.                                   *)
(***************************************************************************)
\* C21: every normalising step rounds up, never down: the output width is at
\* least the input width and the output height at least the input height.
C21_RoundsUpNeverDown ==
    (stage = "resize" /\ op # "none") => (outW >= inW /\ outH >= inH)

(***************************************************************************)
(* Properties of the voiceover files.                                      *)
(***************************************************************************)
\* the notes whose text_to_speech call has returned normally
Returned == {j \in 1..(IF pc = "raised" THEN i - 2 ELSE i - 1) : Note(j) \in DOMAIN notes}

\* C22: for a note with text, text_to_speech writes the payload to a
\* temporary path that is not the final path, concatenates silence, speech
\* and silence into the final path and then deletes the temporary file; after
\* every normal return the final voiceover exists and the temporary file does
\* not, and no final path ever holds the speech-only payload.
C22_TempThenConcatThenUnlink ==
    stage = "speech" =>
       /\ \A j \in Returned :
             Strip(notes[Note(j)]) # <<>>
             => /\ Voiceover(j) \in DOMAIN voiceovers
                /\ voiceovers[Voiceover(j)] =
                      ConcatAudio(SilenceTrack, SpeechBytes, SilenceTrack)
                /\ TempPath(Voiceover(j)) \notin DOMAIN voiceovers
                /\ TempPath(Voiceover(j)) # Voiceover(j)
       /\ (/\ pc \in {"loop", "done"} /\ i >= 2 /\ (i - 1) \in Returned
           /\ Strip(notes[Note(i - 1)]) # <<>>)
          => fileOps = << <<"write", TempPath(Voiceover(i - 1))>>,
                          <<"concat", Voiceover(i - 1)>>,
                          <<"unlink", TempPath(Voiceover(i - 1))>> >>
       /\ \A f \in DOMAIN voiceovers : f.ext = "mp3" => voiceovers[f] # SpeechBytes

\* note 1 has text, its synthesis succeeded and the call has returned
C22_Witness ==
    /\ stage = "speech" /\ pc = "loop" /\ i = 2 /\ apiCalls = 1
    /\ Note(1) \in DOMAIN notes /\ Strip(notes[Note(1)]) # <<>>
    /\ Len(fileOps) = 3
    /\ Voiceover(1) \in DOMAIN voiceovers

\* C24: after a run of the speech stage, ended normally or by an error, every
\* file of the voiceovers directory that the composer's "*.mp3" enumeration
\* picks up is a final voiceover_<n>.mp3.
C24_GlobPicksFinalVoiceoversOnly ==
    (stage = "speech" /\ pc \in {"done", "raised"})
    => \A f \in GlobMp3 : f.ext = "mp3"

(***************************************************************************)
(* Properties of reruns of the compose stage.                              *)
(***************************************************************************)
\* C23: a rerun of the compose stage with overwrite disabled skips only the
\* indices whose encode completed before: an index whose encode timed out or
\* exited non-zero in the first run is attempted again.
C23_RerunSkipsOnlyEncoded ==
    (run = 2 /\ stage = "compose" /\ ~overwrite)
    => \A c \in skipped : clips[c] = "complete"

(***************************************************************************)
(* Properties of the correspondence of the asset sequences.                *)
(***************************************************************************)
\* C25: when notes extraction, speech synthesis and rendering have all ended
\* without error on a deck of N slides, the voiceover indices and the image
\* indices are both 1..N, so the composer's validation passes.
C25_VoiceoverPerSlide ==
    (/\ run = 1 /\ stage = "compose" /\ pc = "start"
     /\ failedSlide = 0 /\ raised = "none")
    => /\ {f.n : f \in images} = 1..Len(deck)
       /\ {f.n : f \in DOMAIN voiceovers} = 1..Len(deck)
       /\ ValidateFiles = "ok"

(***************************************************************************)
(* Properties of the clip paths.                                           *)
(***************************************************************************)
\* C26: in one run of generate_videoclips on directories that pass
\* validation, two different pairs never have the same clip path as their
\* write target, and no pair is skipped because of a clip of the same run.
C26_DistinctClipPaths ==
    stage = "compose"
    => /\ \A j, k \in 1..Len(pairs) : j # k => pairs[j][3] # pairs[k][3]
       /\ \A c \in skipped : c \in clipsBefore

====
